---- MODULE Spec2Model ----
(***************************************************************************)
(* circdown: a catalog client for the CircuitPython firmware bucket.       *)
(* Strings are sequences of one-character strings, so that the regular     *)
(* expressions, str.split, str.endswith and the string orderings of the    *)
(* program can be computed character by character.                         *)
(***************************************************************************)
EXTENDS Integers, Sequences, FiniteSets, TLC

(***************************************************************************)
(* Characters and strings                                                  *)
(***************************************************************************)

\* The characters used, in ascending code point order (Python compares str
\* values code point by code point).
Ascii ==
  <<"#","-",".","/","0","1","2","3","4","5","6","7","8","9",":",";","?",
    "A","B","C","D","E","F","G","H","I","J","K","L","M","N","O","P","Q","R",
    "S","T","U","V","W","X","Y","Z","_",
    "a","b","c","d","e","f","g","h","i","j","k","l","m","n","o","p","q","r",
    "s","t","u","v","w","x","y","z">>

\* ord(c) for each of them, up to the order.
OrdTable ==
  [c \in {Ascii[i] : i \in DOMAIN Ascii} |->
     CHOOSE i \in DOMAIN Ascii : Ascii[i] = c]

Ord(c) == OrdTable[c]

Digits == {"0","1","2","3","4","5","6","7","8","9"}

Letters ==
  {"A","B","C","D","E","F","G","H","I","J","K","L","M","N","O","P","Q","R",
   "S","T","U","V","W","X","Y","Z",
   "a","b","c","d","e","f","g","h","i","j","k","l","m","n","o","p","q","r",
   "s","t","u","v","w","x","y","z"}

\* Python's None, a value no character string equals.
None == <<"None">>

Min(S) == CHOOSE x \in S : \A y \in S : x <= y

Max(S) == CHOOSE x \in S : \A y \in S : y <= x

\* The code points of a str.
Codes(str) == [i \in 1..Len(str) |-> Ord(str[i])]

\* a < b on sequences of integers: the first difference decides, and a
\* proper prefix is the smaller one.
SeqLess(a, b) ==
  LET n == IF Len(a) < Len(b) THEN Len(a) ELSE Len(b)
      d == {i \in 1..n : a[i] # b[i]}
  IN  IF d = {} THEN Len(a) < Len(b)
      ELSE a[Min(d)] < b[Min(d)]

\* a < b on str
StrLess(a, b) == SeqLess(Codes(a), Codes(b))

\* s.startswith(p)
StartsWith(s, p) == Len(p) <= Len(s) /\ SubSeq(s, 1, Len(p)) = p

\* s.endswith(p)
EndsWith(s, p) ==
  Len(p) <= Len(s) /\ SubSeq(s, Len(s) - Len(p) + 1, Len(s)) = p

\* p in s
Contains(s, p) ==
  \E i \in 1..(Len(s) + 1) :
    i + Len(p) - 1 <= Len(s) /\ SubSeq(s, i, i + Len(p) - 1) = p

\* The one element of a singleton set; {e(v) : v \in {x}} computes x once.
Only(S) == CHOOSE x \in S : TRUE

\* s.split(sep, maxsplit) for a one-character sep; maxsplit = -1 is no limit.
\* The string is cut at its first maxsplit separators, from the left.
SplitAt(s, cuts) ==
  LET n      == Cardinality(cuts)
      cut(k) == IF k = 0 THEN 0
                ELSE IF k = n + 1 THEN Len(s) + 1
                ELSE CHOOSE i \in cuts : Cardinality({j \in cuts : j < i}) = k - 1
  IN  [k \in 1..(n + 1) |-> SubSeq(s, cut(k - 1) + 1, cut(k) - 1)]

Split(s, sep, maxsplit) ==
  Only({SplitAt(v, {i \in at : maxsplit < 0 \/
                               Cardinality({j \in at : j < i}) < maxsplit}) :
        v \in {s}, at \in {{i \in 1..Len(s) : s[i] = sep}}})

Last(s) == s[Len(s)]

(***************************************************************************)
(* ImageInfo: the regular expressions and the version predicates           *)
(***************************************************************************)

\* [0-9]+
IsDecimal(s) == Len(s) >= 1 /\ \A i \in 1..Len(s) : s[i] \in Digits

\* [0-9]+(?:\.[0-9]+){mindots,} matched against the whole of s
IsDotted(s, mindots) ==
  LET parts == Split(s, ".", -1)
  IN  /\ Len(parts) >= mindots + 1
      /\ \A i \in 1..Len(parts) : IsDecimal(parts[i])

\* RELEASE_REGEX.match(version): the pattern is anchored at the start only,
\* so it matches when some prefix of the version is in its language.
RELEASE_REGEX(version) ==
  \E n \in 1..Len(version) : IsDotted(SubSeq(version, 1, n), 1)

\* FULL_RELEASE_REGEX.match(version): anchored at both ends.
FULL_RELEASE_REGEX(version) == IsDotted(version, 0)

is_release(image) == RELEASE_REGEX(image.version)

is_full_release(image) == FULL_RELEASE_REGEX(image.version)

is_rc(image) == Contains(image.version, <<"r","c">>)

is_alpha(image) == Contains(image.version, <<"a","l","p","h","a">>)

\* \.[A-Za-z][0-9A-Za-z]* for one segment, without its leading dot
IsTypeSegment(seg) ==
  /\ Len(seg) >= 1
  /\ seg[1] \in Letters
  /\ \A i \in 1..Len(seg) : seg[i] \in Letters \cup Digits

\* (?:\.[A-Za-z][0-9A-Za-z]*)+ matched against the whole of t
IsTypeSuffix(t) ==
  LET parts == Split(t, ".", -1)
  IN  /\ Len(parts) >= 2
      /\ parts[1] = << >>
      /\ \A i \in 2..Len(parts) : IsTypeSegment(parts[i])

\* The lengths of stem group 1 of FILETYPE_REGEX can take.
StemLengths(filename) ==
  {i \in 0..Len(filename) :
     /\ i < Len(filename)
     /\ filename[i + 1] = "."
     /\ IsTypeSuffix(SubSeq(filename, i + 1, Len(filename)))}

\* Variant: a greedy stem, (.*), which leaves the type its last segment only.
StemLengthGreedy(filename) == Max(StemLengths(filename))

\* (.*?) is lazy: the shortest stem that lets the rest match is taken.
StemLength(filename) == Min(StemLengths(filename))

\* FILETYPE_REGEX.match(filename) is not None
FILETYPE_REGEX(filename) == StemLengths(filename) # {}

\* FILETYPE_REGEX.match(filename).groups()
FiletypeGroups(filename) ==
  Only({<<SubSeq(filename, 1, n), SubSeq(filename, n + 1, Len(filename))>> :
        n \in {StemLength(filename)}})

(***************************************************************************)
(* URLs                                                                    *)
(***************************************************************************)

bucket_url ==
  <<"h","t","t","p","s",":","/","/","a","d","a","f","r","u","i","t","-",
    "c","i","r","c","u","i","t","-","p","y","t","h","o","n",".","s","3",".",
    "a","m","a","z","o","n","a","w","s",".","c","o","m">>

\* The first position at or after i of a character of cs, Len(s) + 1 if none.
Find(s, i, cs) ==
  LET at == {j \in i..Len(s) : s[j] \in cs}
  IN  IF at = {} THEN Len(s) + 1 ELSE Min(at)

\* requests.compat.urljoin(bucket_url, key) for a relative key: the bucket
\* url has an empty path, so the key becomes the path.
urljoin(base, key) == base \o <<"/">> \o key

\* requests.compat.urlparse(url).path of scheme://netloc/path;params?query#frag
UrlPath(url) ==
  LET colon    == Find(url, 1, {":"})
      netloc   == colon + 3
      pathfrom == Find(url, netloc, {"/", "?", "#"})
      pathto   == Find(url, pathfrom, {"?", "#"}) - 1
      full     == SubSeq(url, pathfrom, pathto)
      slashes  == {j \in 1..Len(full) : full[j] = "/"}
      lastseg  == IF slashes = {} THEN 1 ELSE Max(slashes) + 1
      params   == Find(full, lastseg, {";"})
  IN  SubSeq(full, 1, params - 1)

(***************************************************************************)
(* ImageInfo.from_url                                                      *)
(***************************************************************************)

\* info.path.split('/')[-1]
Basename(url) == Last(Split(UrlPath(url), "/", -1))

\* name.split('-', 4)
StemFields(filename) == Split(FiletypeGroups(filename)[1], "-", 4)

\* The exception from_url raises on url, "none" when it returns a record:
\* .groups() on a failed match is an AttributeError, the five-name
\* unpacking of fewer than five fields is a ValueError.
FromUrlRaises(url) ==
  Only({IF ~FILETYPE_REGEX(filename) THEN "AttributeError"
        ELSE IF Len(StemFields(filename)) # 5 THEN "ValueError"
        ELSE "none" :
        filename \in {Basename(url)}})

from_url(url, size, mdate) ==
  Only({[name     |-> filename,
         url      |-> url,
         size     |-> size,
         mdate    |-> mdate,
         board    |-> StemFields(filename)[3],
         language |-> StemFields(filename)[4],
         version  |-> StemFields(filename)[5],
         type     |-> FiletypeGroups(filename)[2]] :
        filename \in {Basename(url)}})

(***************************************************************************)
(* FirmwareDownloader: the pure parts                                       *)
(***************************************************************************)

\* parse_contents: one (url, size, mdate) per Contents element.  A
\* LastModified timestamp is [date, time]; strptime keeps both.
parse_contents(doc) ==
  [i \in 1..Len(doc.contents) |->
     [url   |-> urljoin(bucket_url, doc.contents[i].Key),
      size  |-> doc.contents[i].Size,
      mdate |-> doc.contents[i].LastModified]]

\* parse_common_prefixes: one url per CommonPrefixes element.
parse_common_prefixes(doc) ==
  [i \in 1..Len(doc.prefixes) |-> urljoin(bucket_url, doc.prefixes[i])]

\* Variant: entries from_url cannot parse are skipped.
list_images_skipping(doc) ==
  Only({[raises |-> "none",
         value  |-> [i \in 1..Len(good) |->
                       from_url(good[i].url, good[i].size, good[i].mdate)]] :
        good \in {SelectSeq(parse_contents(doc),
                            LAMBDA e : FromUrlRaises(e.url) = "none")}})

\* list_images after the listing request: every entry goes through from_url
\* inside one list comprehension, so the first exception leaves it and no
\* list is returned.
list_images(doc) ==
  Only({IF bad # {}
        THEN [raises |-> FromUrlRaises(entries[Min(bad)].url), value |-> << >>]
        ELSE [raises |-> "none",
              value  |-> [i \in 1..Len(entries) |->
                            from_url(entries[i].url, entries[i].size,
                                     entries[i].mdate)]] :
        entries \in {parse_contents(doc)},
        bad \in {{i \in 1..Len(doc.contents) :
                    FromUrlRaises(urljoin(bucket_url, doc.contents[i].Key))
                      # "none"}}})

\* key.split('/')[-2]
SecondLast(parts) == parts[Len(parts) - 1]

\* list_boards / list_languages: the names yielded for a listing document.
YieldNames(doc, search) ==
  LET keys  == parse_common_prefixes(doc)
      kept  == SelectSeq(keys, LAMBDA key : search = None \/ Contains(key, search))
  IN  [i \in 1..Len(kept) |-> SecondLast(Split(kept[i], "/", -1))]

\* list_versions: the versions yielded for a list of images.
YieldVersions(imgs, search) ==
  LET kept == SelectSeq(imgs, LAMBDA image :
                /\ search = None \/ Contains(image.version, search)
                /\ is_release(image))
  IN  [i \in 1..Len(kept) |-> kept[i].version]

(***************************************************************************)
(* main, the get command: sorting and filtering                            *)
(***************************************************************************)

\* r.mdate.date()
DateOf(mdate) == mdate.date

\* A sort key is a tuple of components, each a sequence of integers: a date
\* is the sequence of its one number, a str the sequence of its code points.
\* Tuples compare component by component, as Python's do.
KeyLess(k, l) ==
  \E c \in 1..Len(k) :
    /\ \A b \in 1..(c - 1) : k[b] = l[b]
    /\ SeqLess(k[c], l[c])

\* sorted(s, key=..., reverse=True), keys[i] being the key of s[i]: the sort
\* is stable, and reverse=True keeps the original order of elements with
\* equal keys.  Element i goes after every element with a greater key and
\* after the earlier elements with an equal key.
SortedReverse(s, keys) ==
  LET rank(ks, i) ==
        Cardinality({j \in 1..Len(ks) : KeyLess(ks[i], ks[j])}) +
        Cardinality({j \in 1..i : ks[i] = ks[j]})
  IN  Only({[k \in 1..Len(v) |-> v[CHOOSE i \in 1..Len(v) : rank(ks, i) = k]] :
            v \in {s}, ks \in {keys}})

\* key=lambda r: (r.mdate.date(), r.version)
KeyDateVersion(r) == <<<<DateOf(r.mdate)>>, Codes(r.version)>>

\* key=lambda r: r.type
KeyType(r) == <<Codes(r.type)>>

\* key=lambda r: r.mdate.date()
KeyDate(r) == <<<<DateOf(r.mdate)>>>>

\* sorted(cp.list_images(...), key=lambda r: (r.mdate.date(), r.version),
\* reverse=True)
SortedByDateVersion(s) ==
  SortedReverse(s, [i \in 1..Len(s) |-> KeyDateVersion(s[i])])

\* sorted(results, key=lambda r: r.type, reverse=True)
SortedByType(s) == SortedReverse(s, [i \in 1..Len(s) |-> KeyType(s[i])])

\* sorted(results, key=lambda r: r.mdate.date(), reverse=True)
SortedByDate(s) == SortedReverse(s, [i \in 1..Len(s) |-> KeyDate(s[i])])

\* Variant: the first sort alone, (date, version) deciding the order.
SortResultsOnce(imgs) == Only({SortedByDateVersion(s) : s \in {imgs}})

\* The three sorted() calls of the get command, each on the result of the
\* one before.
SortResults(imgs) ==
  Only({SortedByDate(s2) :
        s2 \in {SortedByType(s1) :
                s1 \in {SortedByDateVersion(s0) : s0 \in {imgs}}}})

\* if options.type and not options.type.startswith('.')
NormalizeType(type) ==
  IF type # None /\ type # << >> /\ ~StartsWith(type, <<".">>)
  THEN <<".">> \o type
  ELSE type

\* Variant: each flag paired with one predicate,
\* (prerelease or full release) and (latest or release).
GateConjunctive(img, opts) ==
  /\ opts.prerelease \/ is_full_release(img)
  /\ opts.latest \/ is_release(img)

\* The third condition of the comprehension.
Gate(img, opts) ==
  opts.prerelease \/ is_full_release(img) \/ opts.latest \/ is_release(img)

\* Variant: the type compared for equality instead of as a suffix.
KeepExactType(img, opts) ==
  /\ opts.type = None \/ img.type = opts.type
  /\ opts.version = None \/ img.version = opts.version
  /\ opts.prerelease \/ is_full_release(img) \/ opts.latest \/ is_release(img)

\* Variant: the version matched as a prefix, with the operands exchanged.
KeepVersionPrefix(img, opts) ==
  /\ opts.type = None \/ EndsWith(img.type, opts.type)
  /\ opts.version = None \/ StartsWith(opts.version, img.version)
  /\ opts.prerelease \/ is_full_release(img) \/ opts.latest \/ is_release(img)

\* The three conditions of the comprehension.
Keep(img, opts) ==
  /\ opts.type = None \/ EndsWith(img.type, opts.type)
  /\ opts.version = None \/ img.version = opts.version
  /\ Gate(img, opts)

Filter(sorted, opts) == SelectSeq(sorted, LAMBDA img : Keep(img, opts))

(***************************************************************************)
(* Bounds and input universes                                              *)
(***************************************************************************)

\* Entries (Contents or CommonPrefixes) in one listing page.
MaxEntries == 2

\* Chunks the download streams before the body ends.
MaxChunks == 2

Product == <<"a","d","a","f","r","u","i","t">>

Distribution == <<"c","i","r","c","u","i","t","p","y","t","h","o","n">>

Qtpy == <<"q","t","p","y">>

FeatherM0 == <<"f","e","a","t","h","e","r","-","m","0">>

EnUS == <<"e","n","_","U","S">>

DeDE == <<"d","e","_","D","E">>

V731 == <<"7",".","3",".","1">>

V7 == <<"7">>

V800beta1 == <<"8",".","0",".","0","-","b","e","t","a",".","1">>

Vmain == <<"m","a","i","n">>

V10rc1 == <<"1",".","0",".","r","c","1">>

Uf2 == <<".","u","f","2">>

BinGz == <<".","b","i","n",".","g","z">>

Bin == <<"b","i","n">>

\* bin/<board>/<language>/<product>-<distribution>-<board>-<language>-<version><type>
MakeKey(p, d, board, language, version, type) ==
  Bin \o <<"/">> \o board \o <<"/">> \o language \o <<"/">> \o
  p \o <<"-">> \o d \o <<"-">> \o board \o <<"-">> \o language \o <<"-">> \o
  version \o type

Timestamps == {[date |-> 1, time |-> 0], [date |-> 1, time |-> 1],
               [date |-> 2, time |-> 0]}

Entry(key, mdate) == [Key |-> key, Size |-> 1024, LastModified |-> mdate]

\* Sequences over S of length at most n.
SeqUpTo(S, n) == UNION {[1..k -> S] : k \in 0..n}

Args(command, type, version, prerelease, latest, search) ==
  [command |-> command, board |-> Qtpy, language |-> EnUS, type |-> type,
   version |-> version, prerelease |-> prerelease, latest |-> latest,
   search |-> search]

\* Keys of the parser specification: every combination of the fields, and
\* names that do not fit the naming convention.
ParseKeys ==
  {MakeKey(Product, Distribution, b, l, v, t) :
     b \in {Qtpy, FeatherM0}, l \in {EnUS, DeDE},
     v \in {V731, V7, V800beta1, Vmain, V10rc1, << >>},
     t \in {Uf2, BinGz, << >>, <<".","1">>}}
  \cup
  {Bin \o <<"/","x","/","y","/">> \o n :
     n \in {<<"n","o","t","-","a","-","v","a","l","i","d","-","n","a","m","e">>,
            <<"a","-","b",".","u","f","2">>,
            <<"a","-","b","-","c","-","d",".","u","f","2">>,
            <<"a","-","b","-","c","-","d","-","1",".","u","f","2","?","x">>,
            <<"a","-","b","-","c","-","d","-","1",".","u","f","2",";","x">>,
            <<"a","-","b","-","c","-","d","-","1",".","0","#",".","u","f","2">>,
            << >>}}

\* Entries of the selection specification: every kind of version with a
\* one- and a two-segment type uploaded on day 1, newer uploads of three of
\* them on day 2, and one upload later on day 1.
SelectEntries ==
  {Entry(MakeKey(Product, Distribution, Qtpy, EnUS, v, t), [date |-> 1, time |-> 0]) :
     v \in {V731, V7, V800beta1, Vmain}, t \in {Uf2, BinGz}}
  \cup
  {Entry(MakeKey(Product, Distribution, Qtpy, EnUS, V731, Uf2), [date |-> 2, time |-> 0]),
   Entry(MakeKey(Product, Distribution, Qtpy, EnUS, V800beta1, BinGz), [date |-> 2, time |-> 0]),
   Entry(MakeKey(Product, Distribution, Qtpy, EnUS, Vmain, Uf2), [date |-> 2, time |-> 0]),
   Entry(MakeKey(Product, Distribution, Qtpy, EnUS, V731, Uf2), [date |-> 1, time |-> 1])}

SelectArgs ==
  {Args("get", t, v, p, l, None) :
     t \in {None, << >>, <<"u","f","2">>, <<".","g","z">>},
     v \in {None, V731, Vmain}, p \in BOOLEAN, l \in BOOLEAN}

\* Entries of the run specification, two of them malformed.
RunEntries ==
  {Entry(MakeKey(Product, Distribution, Qtpy, EnUS, v, Uf2), m) :
     v \in {V731, V800beta1}, m \in {[date |-> 1, time |-> 0], [date |-> 2, time |-> 0]}}
  \cup
  {Entry(Bin \o <<"/">> \o Qtpy \o <<"/">> \o EnUS \o <<"/">> \o n,
         [date |-> 1, time |-> 0]) :
     n \in {<<"n","o","t","-","a","-","v","a","l","i","d","-","n","a","m","e">>,
            <<"a","-","b",".","u","f","2">>}}

RunPrefixes(command) ==
  IF command = "boards"
  THEN {Bin \o <<"/">> \o Qtpy \o <<"/">>, Bin \o <<"/">> \o FeatherM0 \o <<"/">>}
  ELSE {Bin \o <<"/">> \o Qtpy \o <<"/">> \o EnUS \o <<"/">>,
        Bin \o <<"/">> \o Qtpy \o <<"/">> \o DeDE \o <<"/">>}

RunArgs ==
  {Args("get", t, v, p, l, None) :
     t \in {None, <<"u","f","2">>}, v \in {None, V731},
     p \in BOOLEAN, l \in BOOLEAN}
  \cup
  {Args(c, None, None, FALSE, FALSE, s) :
     c \in {"boards", "languages"}, s \in {None, <<"q","t">>, <<"D","E">>}}
  \cup
  {Args("versions", None, None, FALSE, FALSE, s) : s \in {None, <<"7">>}}

\* The listing documents a 200 response can carry for a command: content
\* entries for the leaf level, common prefixes for the directory levels, and
\* IsTruncated when the bucket has more keys than the page holds.
Documents(command) ==
  IF command \in {"boards", "languages"}
  THEN {[contents |-> << >>, prefixes |-> ps, truncated |-> tr] :
          ps \in SeqUpTo(RunPrefixes(command), MaxEntries), tr \in BOOLEAN}
  ELSE {[contents |-> cs, prefixes |-> << >>, truncated |-> tr] :
          cs \in SeqUpTo(RunEntries, MaxEntries), tr \in BOOLEAN}

\* The document of an <Error> response body: no Contents, no CommonPrefixes.
ErrorDocument == [contents |-> << >>, prefixes |-> << >>, truncated |-> FALSE]

(***************************************************************************)
(* State                                                                   *)
(***************************************************************************)

VARIABLES
  pc,         \* position of main
  argv,       \* the command line as parsed, never changed
  options,    \* the options namespace (the get command rewrites its type)
  requests,   \* the HTTP requests issued, in order
  responses,  \* the status of the response to each request, 0 for none
  doc,        \* the listing document S3.list returned
  images,     \* the list list_images returned
  results,    \* the sorted list of the get command
  filtered,   \* the filtered list of the get command
  selected,   \* << >>, or the one selected image
  yielded,    \* the names a list command printed
  message,    \* the closing line the get command printed
  exc,        \* the exception that ended main, "none" if none
  written     \* chunks written to the local file

vars == <<pc, argv, options, requests, responses, doc, images, results,
          filtered, selected, yielded, message, exc, written>>

NoDocument == [contents |-> << >>, prefixes |-> << >>, truncated |-> FALSE]

\* self._session.get(self._bucket_url, params=dict(prefix=path,
\* delimiter=delimiter, marker=marker)) with the defaults of S3.list
ListingRequest(path) ==
  [kind |-> "list", target |-> path, delimiter |-> <<"/">>, marker |-> None]

\* self._session.get(image.url, stream=True)
DownloadRequestFor(image) ==
  [kind |-> "download", target |-> image.url, delimiter |-> None,
   marker |-> None]

\* f'bin/{board}/{language}/'
ImagesPath(opts) ==
  Bin \o <<"/">> \o opts.board \o <<"/">> \o opts.language \o <<"/">>

\* After parse_args and FirmwareDownloader(): nothing requested yet.
Init ==
  /\ pc = "main"
  /\ argv \in RunArgs
  /\ options = argv
  /\ requests = << >>
  /\ responses = << >>
  /\ doc = NoDocument
  /\ images = << >>
  /\ results = << >>
  /\ filtered = << >>
  /\ selected = << >>
  /\ yielded = << >>
  /\ message = "none"
  /\ exc = "none"
  /\ written = 0

(***************************************************************************)
(* Listing                                                                 *)
(***************************************************************************)

\* list_boards up to its request: super().list('bin/')
ListBoardsRequest ==
  /\ pc = "main"
  /\ options.command = "boards"
  /\ requests' = Append(requests, ListingRequest(Bin \o <<"/">>))
  /\ pc' = "list_wait"
  /\ UNCHANGED <<argv, options, responses, doc, images, results, filtered,
                 selected, yielded, message, exc, written>>

\* list_languages up to its request: super().list(f'bin/{board}/')
ListLanguagesRequest ==
  /\ pc = "main"
  /\ options.command = "languages"
  /\ requests' = Append(requests,
                   ListingRequest(Bin \o <<"/">> \o options.board \o <<"/">>))
  /\ pc' = "list_wait"
  /\ UNCHANGED <<argv, options, responses, doc, images, results, filtered,
                 selected, yielded, message, exc, written>>

\* list_images up to its request, called by list_versions and by the get
\* command, which first puts the dot in front of options.type.
ListImagesRequest ==
  /\ pc = "main"
  /\ options.command \in {"versions", "get"}
  /\ options' = IF options.command = "get"
                THEN [options EXCEPT !.type = NormalizeType(options.type)]
                ELSE options
  /\ requests' = Append(requests, ListingRequest(ImagesPath(options)))
  /\ pc' = "list_wait"
  /\ UNCHANGED <<argv, responses, doc, images, results, filtered, selected,
                 yielded, message, exc, written>>

\* S3.list: the request fails in the network; session.get raises.
ListConnectionError ==
  /\ pc = "list_wait"
  /\ responses' = Append(responses, 0)
  /\ exc' = "ConnectionError"
  /\ pc' = "raised"
  /\ UNCHANGED <<argv, options, requests, doc, images, results, filtered,
                 selected, yielded, message, written>>

\* Variant: a truncated page sends the listing back for the next page.
ListResponsePaging ==
  /\ pc = "list_wait"
  /\ \E status \in {200, 403, 503} :
     \E body \in IF status = 200 THEN Documents(options.command)
                 ELSE {ErrorDocument} :
     \E xml \in IF status = 200 THEN {TRUE} ELSE BOOLEAN :
       /\ responses' = Append(responses, status)
       /\ IF xml
          THEN /\ doc' = body
               /\ pc' = IF body.truncated /\ Len(requests) < 2
                        THEN "main" ELSE "list_doc"
               /\ exc' = exc
          ELSE /\ doc' = doc
               /\ pc' = "raised"
               /\ exc' = "ParseError"
  /\ UNCHANGED <<argv, options, requests, images, results, filtered, selected,
                 yielded, message, written>>

\* S3.list: a response arrives and ET.fromstring parses its body, whatever
\* its status.  A 200 carries a listing; an error status carries an <Error>
\* document or a body that is not XML (ParseError).
ListResponse ==
  /\ pc = "list_wait"
  /\ \E status \in {200, 403, 503} :
     \E body \in IF status = 200 THEN Documents(options.command)
                 ELSE {ErrorDocument} :
     \E xml \in IF status = 200 THEN {TRUE} ELSE BOOLEAN :
       /\ responses' = Append(responses, status)
       /\ IF xml
          THEN /\ doc' = body
               /\ pc' = "list_doc"
               /\ exc' = exc
          ELSE /\ doc' = doc
               /\ pc' = "raised"
               /\ exc' = "ParseError"
  /\ UNCHANGED <<argv, options, requests, images, results, filtered, selected,
                 yielded, message, written>>

\* list_boards / list_languages after the request, consumed by main's loop.
YieldPrefixNames ==
  /\ pc = "list_doc"
  /\ options.command \in {"boards", "languages"}
  /\ yielded' = YieldNames(doc, options.search)
  /\ pc' = "done"
  /\ UNCHANGED <<argv, options, requests, responses, doc, images, results,
                 filtered, selected, message, exc, written>>

\* list_images after the request.
ListImages ==
  /\ pc = "list_doc"
  /\ options.command \in {"versions", "get"}
  /\ \E returned \in {list_images(doc)} :
       IF returned.raises # "none"
       THEN /\ exc' = returned.raises
            /\ pc' = "raised"
            /\ images' = images
       ELSE /\ images' = returned.value
            /\ pc' = "images"
            /\ exc' = exc
  /\ UNCHANGED <<argv, options, requests, responses, doc, results, filtered,
                 selected, yielded, message, written>>

\* list_versions over the images, consumed by main's loop.
ListVersions ==
  /\ pc = "images"
  /\ options.command = "versions"
  /\ yielded' = YieldVersions(images, options.search)
  /\ pc' = "done"
  /\ UNCHANGED <<argv, options, requests, responses, doc, images, results,
                 filtered, selected, message, exc, written>>

(***************************************************************************)
(* The get command                                                         *)
(***************************************************************************)

\* The three sorts, the filter and the choice of filtered[0]; with nothing
\* left, the 'No images found' line ends main.
Select ==
  /\ pc = "images"
  /\ options.command = "get"
  /\ results' = SortResults(images)
  /\ filtered' = Filter(results', options)
  /\ IF filtered' # << >>
     THEN /\ selected' = <<filtered'[1]>>
          /\ message' = message
          /\ pc' = "selected"
     ELSE /\ selected' = << >>
          /\ message' = "No images found"
          /\ pc' = "done"
  /\ UNCHANGED <<argv, options, requests, responses, doc, images, yielded,
                 exc, written>>

\* Variant: the first sorted record is downloaded, not the selected one.
DownloadRequestFirstResult ==
  /\ pc = "selected"
  /\ requests' = Append(requests, DownloadRequestFor(results[1]))
  /\ pc' = "download_wait"
  /\ UNCHANGED <<argv, options, responses, doc, images, results, filtered,
                 selected, yielded, message, exc, written>>

\* cp.download(selected) up to its request.
DownloadRequest ==
  /\ pc = "selected"
  /\ requests' = Append(requests, DownloadRequestFor(selected[1]))
  /\ pc' = "download_wait"
  /\ UNCHANGED <<argv, options, responses, doc, images, results, filtered,
                 selected, yielded, message, exc, written>>

\* download: the request fails in the network; session.get raises.
DownloadConnectionError ==
  /\ pc = "download_wait"
  /\ responses' = Append(responses, 0)
  /\ exc' = "ConnectionError"
  /\ pc' = "raised"
  /\ UNCHANGED <<argv, options, requests, doc, images, results, filtered,
                 selected, yielded, message, written>>

\* download: a response arrives, whatever its status, and the file is opened.
DownloadResponse ==
  /\ pc = "download_wait"
  /\ \E status \in {200, 403, 503} : responses' = Append(responses, status)
  /\ pc' = "streaming"
  /\ UNCHANGED <<argv, options, requests, doc, images, results, filtered,
                 selected, yielded, message, exc, written>>

\* download: one chunk of the body is written to the file.
WriteChunk ==
  /\ pc = "streaming"
  /\ written < MaxChunks
  /\ written' = written + 1
  /\ UNCHANGED <<pc, argv, options, requests, responses, doc, images, results,
                 filtered, selected, yielded, message, exc>>

\* download: the connection breaks while the body streams; iter_content
\* raises.
StreamError ==
  /\ pc = "streaming"
  /\ exc' = "ChunkedEncodingError"
  /\ pc' = "raised"
  /\ UNCHANGED <<argv, options, requests, responses, doc, images, results,
                 filtered, selected, yielded, message, written>>

\* download: the body ends, download returns and main prints 'Finished.'
Finish ==
  /\ pc = "streaming"
  /\ message' = "Finished."
  /\ pc' = "done"
  /\ UNCHANGED <<argv, options, requests, responses, doc, images, results,
                 filtered, selected, yielded, exc, written>>

Next ==
  \/ ListBoardsRequest
  \/ ListLanguagesRequest
  \/ ListImagesRequest
  \/ ListConnectionError
  \/ ListResponse
  \/ YieldPrefixNames
  \/ ListImages
  \/ ListVersions
  \/ Select
  \/ DownloadRequest
  \/ DownloadConnectionError
  \/ DownloadResponse
  \/ WriteChunk
  \/ StreamError
  \/ Finish

Spec == Init /\ [][Next]_vars

(***************************************************************************)
(* The parser alone: one listing entry with any key, through list_images   *)
(***************************************************************************)

InitParse ==
  /\ pc = "list_doc"
  /\ argv = Args("get", None, None, FALSE, FALSE, None)
  /\ options = argv
  /\ requests = <<ListingRequest(ImagesPath(argv))>>
  /\ responses = <<200>>
  /\ \E key \in ParseKeys : \E mdate \in Timestamps :
       doc = [contents |-> <<Entry(key, mdate)>>, prefixes |-> << >>,
              truncated |-> FALSE]
  /\ images = << >>
  /\ results = << >>
  /\ filtered = << >>
  /\ selected = << >>
  /\ yielded = << >>
  /\ message = "none"
  /\ exc = "none"
  /\ written = 0

NextParse == ListImages

SpecParse == InitParse /\ [][NextParse]_vars

(***************************************************************************)
(* The selection alone: any list of images and any criteria                *)
(***************************************************************************)

InitSelect ==
  /\ pc = "images"
  /\ \E cs \in SeqUpTo(SelectEntries, MaxEntries) :
       /\ doc = [contents |-> cs, prefixes |-> << >>, truncated |-> FALSE]
       /\ images = list_images(doc).value
  /\ argv \in SelectArgs
  /\ options = [argv EXCEPT !.type = NormalizeType(argv.type)]
  /\ requests = <<ListingRequest(ImagesPath(argv))>>
  /\ responses = <<200>>
  /\ results = << >>
  /\ filtered = << >>
  /\ selected = << >>
  /\ yielded = << >>
  /\ message = "none"
  /\ exc = "none"
  /\ written = 0

NextSelect == Select

SpecSelect == InitSelect /\ [][NextSelect]_vars

(***************************************************************************)
(* Properties                                                              *)
(***************************************************************************)

\* The names of the naming convention: a type suffix of dot-led segments
\* that start with a letter, after a stem of at least five dash-separated
\* fields.
HasShape(name) ==
  \E i \in 1..Len(name) :
    /\ name[i] = "."
    /\ IsTypeSuffix(SubSeq(name, i, Len(name)))
    /\ Cardinality({j \in 1..(i - 1) : name[j] = "-"}) >= 4

\* A type filter with a dot put in front of it unless it starts with one.
DotPrefixed(type) == IF StartsWith(type, <<".">>) THEN type ELSE <<".">> \o type

NoDash(s) == \A i \in 1..Len(s) : s[i] # "-"

ListRequests == SelectSeq(requests, LAMBDA r : r.kind = "list")

DownloadRequests == SelectSeq(requests, LAMBDA r : r.kind = "download")

\* C1: every version that is a full release is a release, a single decimal
\* integer included.
C1_FullReleaseImpliesRelease ==
  \A i \in 1..Len(images) :
    is_full_release(images[i]) => is_release(images[i])

\* The release gate as the specification words it.
GateAsSpecified(img) ==
  \/ argv.prerelease
  \/ FULL_RELEASE_REGEX(img.version)
  \/ argv.latest
  \/ RELEASE_REGEX(img.version)

\* The three filter conditions, typeCondition being the first.
Satisfying(img, typeCondition) ==
  /\ typeCondition
  /\ argv.version = None \/ img.version = argv.version
  /\ GateAsSpecified(img)

Records(s) == {s[i] : i \in 1..Len(s)}

\* What the selection returns when sat are the records of the listing that
\* satisfy the conditions.
SelectionReturns(satisfying) ==
  pc \in {"selected", "done"} =>
    \A sat \in {satisfying} :
      /\ (selected = << >>) <=> (sat = {})
      /\ selected = << >> => message = "No images found" /\ pc = "done"
      /\ selected # << >> =>
           /\ pc = "selected"
           /\ selected[1] \in sat
           /\ selected[1] = results[Min({i \in 1..Len(results) : results[i] \in sat})]
           /\ \A r \in sat : DateOf(r.mdate) <= DateOf(selected[1].mdate)

TypeAbsentOrSuffix(img) ==
  argv.type = None \/ EndsWith(img.type, DotPrefixed(argv.type))

TypeAbsentEmptyOrSuffix(img) ==
  argv.type = None \/ argv.type = << >> \/ EndsWith(img.type, DotPrefixed(argv.type))

\* C2 as stated: the selection is 'no match' exactly when no record has a
\* type ending with the dot-prefixed type filter (or no type filter), the
\* version of the version filter (or no version filter) and passes the
\* release gate; otherwise it is the first such record of the sorted order,
\* and no such record has a later date.
C2_SelectionAsStated ==
  SelectionReturns({r \in Records(images) :
                      Satisfying(r, TypeAbsentOrSuffix(r))})

\* C2 amended: the same, where an empty type filter counts as no type filter.
C2_Selection ==
  SelectionReturns({r \in Records(images) :
                      Satisfying(r, TypeAbsentEmptyOrSuffix(r))})

\* A type filter without its dot leaves some records out, and the record
\* selected is not the first of the sorted order.
C2_Witness ==
  /\ pc = "selected"
  /\ argv.type = <<"u","f","2">>
  /\ Len(filtered) < Len(results)
  /\ selected[1] # results[1]

\* (date, type, version) as one key
KeyComposite(r) == <<<<DateOf(r.mdate)>>, Codes(r.type), Codes(r.version)>>

\* C3: the order of the three sorts is the order of one stable descending
\* sort on (date, type, version): later dates first, among records of one
\* date the greater type first, among records of one date and type the
\* greater version first.
C3_NetPrecedence ==
  pc \in {"selected", "done"} =>
    /\ results = SortedReverse(images,
                               [i \in 1..Len(images) |-> KeyComposite(images[i])])
    /\ Len(results) = Len(images)
    /\ \A i \in 1..Len(results) : \A j \in 1..Len(results) :
         i < j =>
           /\ DateOf(results[i].mdate) >= DateOf(results[j].mdate)
           /\ DateOf(results[i].mdate) = DateOf(results[j].mdate) =>
                ~StrLess(results[i].type, results[j].type)
           /\ DateOf(results[i].mdate) = DateOf(results[j].mdate)
                /\ results[i].type = results[j].type =>
                ~StrLess(results[i].version, results[j].version)

\* Two records of one date: the one with the greater type is first although
\* its version is the smaller one and it came second in the listing.
C3_Witness ==
  /\ pc \in {"selected", "done"}
  /\ Len(results) = 2
  /\ DateOf(results[1].mdate) = DateOf(results[2].mdate)
  /\ StrLess(results[2].type, results[1].type)
  /\ StrLess(results[1].version, results[2].version)
  /\ results[1] = images[2]

\* C4: a download is requested only once the selection is complete and has
\* selected a record, at most once and exactly once when main went on from a
\* selected record, for the url of that record; the 'no match' state
\* requests no download and ends main without an exception.
C4_DownloadAfterSelection ==
  /\ Len(DownloadRequests) <= 1
  /\ DownloadRequests # << >> =>
       /\ pc \in {"download_wait", "streaming", "done", "raised"}
       /\ options.command = "get"
       /\ selected # << >>
       /\ selected[1] = filtered[1]
       /\ filtered = Filter(results, options)
       /\ DownloadRequests[1].target = selected[1].url
       /\ Last(requests) = DownloadRequests[1]
  /\ selected # << >> /\ pc \in {"download_wait", "streaming", "done", "raised"} =>
       Len(DownloadRequests) = 1
  /\ message = "No images found" =>
       /\ DownloadRequests = << >>
       /\ selected = << >>
       /\ exc = "none"
       /\ pc = "done"
  /\ options.command = "get" /\ pc = "done" /\ selected = << >> =>
       message = "No images found"

\* A finished download of a record that is not the first of the sorted
\* order.
C4_Witness ==
  /\ pc = "done"
  /\ message = "Finished."
  /\ Len(requests) = 2
  /\ selected[1] # results[1]
  /\ requests[2].target = selected[1].url

\* The basename of an object key.
KeyBasename(key) == Last(Split(key, "/", -1))

MalformedEntries ==
  {i \in 1..Len(doc.contents) : ~HasShape(KeyBasename(doc.contents[i].Key))}

KeyFields ==
  {<<b, l, v, t>> :
     b \in {Qtpy, FeatherM0}, l \in {EnUS, DeDE},
     v \in {V731, V7, V800beta1, Vmain, V10rc1, << >>},
     t \in {Uf2, BinGz, << >>, <<".","1">>}}

\* The record parsed has exactly the fields f.
ParsedAs(f) ==
  /\ pc = "images"
  /\ Len(images) = 1
  /\ images[1].board = f[1]
  /\ images[1].language = f[2]
  /\ images[1].version = f[3]
  /\ images[1].type = f[4]
  /\ images[1].name =
       Product \o <<"-">> \o Distribution \o <<"-">> \o f[1] \o <<"-">> \o
       f[2] \o <<"-">> \o f[3] \o f[4]

\* The key parsed was built from the fields f.
BuiltFrom(f) ==
  /\ pc # "list_doc"
  /\ doc.contents[1].Key = MakeKey(Product, Distribution, f[1], f[2], f[3], f[4])

\* Board and language without a dash, and a type of dot-led segments that
\* start with a letter.
WellFormed(f) == NoDash(f[1]) /\ NoDash(f[2]) /\ IsTypeSuffix(f[4])

\* The version does not end in dot-led segments that start with a letter.
NoTypeLikeEnd(version) ==
  \A i \in 1..Len(version) : ~IsTypeSuffix(SubSeq(version, i, Len(version)))

\* C6 as stated: a well-formed key parses to the board, language, version
\* and type it was built from, and to its basename as name.
C6_RoundTripAsStated ==
  \A f \in KeyFields : BuiltFrom(f) /\ WellFormed(f) => ParsedAs(f)

\* C6 amended: the same for the keys whose version does not end in dot-led
\* segments that start with a letter.
C6_RoundTrip ==
  \A f \in KeyFields :
    BuiltFrom(f) /\ WellFormed(f) /\ NoTypeLikeEnd(f[3]) => ParsedAs(f)

\* A version with dashes and dots and a type of two segments, parsed.
C6_Witness ==
  /\ BuiltFrom(<<Qtpy, EnUS, V800beta1, BinGz>>)
  /\ ParsedAs(<<Qtpy, EnUS, V800beta1, BinGz>>)

\* C7: a listing request that failed in the network or was answered with an
\* error status ends main with an exception, and a download answered that
\* way does not end as a finished download.
C7_TransportFailureIsFatal ==
  /\ Len(responses) >= 1 /\ responses[1] # 200 =>
       /\ pc = "raised"
       /\ exc # "none"
       /\ message = "none"
  /\ Len(responses) >= 2 /\ responses[2] # 200 => message # "Finished."

\* The record of images with version v, when there is exactly one.
OnlyWithVersion(v) ==
  IF Cardinality({i \in 1..Len(images) : images[i].version = v}) = 1
  THEN <<images[CHOOSE i \in 1..Len(images) : images[i].version = v]>>
  ELSE << >>

\* C8: with a dotted-decimal version filter that exactly one record has,
\* and a type filter that is absent or matched by that record, that record
\* is selected, whatever the flags and the other records are.
C8_ExactVersion ==
  pc \in {"selected", "done"} /\ argv.version # None /\ IsDotted(argv.version, 1) =>
    \A only \in {OnlyWithVersion(argv.version)} :
      /\ only # << >>
      /\ argv.type = None \/ EndsWith(only[1].type, DotPrefixed(argv.type))
      => selected = only

\* Neither flag is set, the other record is newer and of another version,
\* and the record of the version asked for is selected.
C8_Witness ==
  /\ pc = "selected"
  /\ argv.version = V731
  /\ ~argv.prerelease /\ ~argv.latest
  /\ Len(images) = 2
  /\ selected = OnlyWithVersion(V731)
  /\ selected[1] = results[2]

\* C9: a listing operation issues one listing request, without a marker,
\* whatever the response says about more pages; a get run issues one
\* listing request and after it at most one download request.
C9_OneListingRequest ==
  /\ Len(ListRequests) <= 1
  /\ pc # "main" => Len(ListRequests) = 1 /\ requests[1].kind = "list"
  /\ \A i \in 1..Len(requests) : requests[i].marker = None
  /\ Len(requests) <= 2
  /\ Len(requests) = 2 => options.command = "get" /\ requests[2].kind = "download"

\* A listing operation that ended after a page marked as truncated.
C9_Witness ==
  /\ pc = "done"
  /\ doc.truncated
  /\ Len(requests) = 1
  /\ options.command # "get"

\* The filtered list of the run with the flags set to p and l.
FilteredWith(p, l) ==
  Filter(results, [options EXCEPT !.prerelease = p, !.latest = l])

\* The records passing the type and version conditions.
FilteredNoGate ==
  SelectSeq(results, LAMBDA img :
    /\ options.type = None \/ EndsWith(img.type, options.type)
    /\ options.version = None \/ img.version = options.version)

\* C10: the runs with prerelease only, latest only and both keep the same
\* records, those the type and version conditions keep; the run with neither
\* keeps of these exactly the releases and full releases.
C10_FlagsOnlyThroughDisjunction ==
  pc \in {"selected", "done"} =>
    \A nogate \in {FilteredNoGate} :
      /\ filtered = FilteredWith(argv.prerelease, argv.latest)
      /\ FilteredWith(TRUE, FALSE) = nogate
      /\ FilteredWith(FALSE, TRUE) = nogate
      /\ FilteredWith(TRUE, TRUE) = nogate
      /\ FilteredWith(FALSE, FALSE) =
           SelectSeq(nogate, LAMBDA img :
             RELEASE_REGEX(img.version) \/ FULL_RELEASE_REGEX(img.version))

\* With neither flag nothing is selected, with either flag a record is.
C10_Witness ==
  /\ pc = "done"
  /\ ~argv.prerelease /\ ~argv.latest
  /\ filtered = << >>
  /\ FilteredWith(TRUE, FALSE) # << >>
  /\ FilteredWith(FALSE, TRUE) = FilteredWith(TRUE, FALSE)

====
